---- MODULE Spec2Model ----
(***************************************************************************)
(* safe-timeouts: withTimeout(ms, fn) on the Node.js event loop.           *)
(*                                                                         *)
(* The model follows src/src/withTimeout.ts line by line and places it on  *)
(* the run-to-completion event loop it runs on: one task runs at a time,   *)
(* promise reactions are microtasks served first-in first-out and drained  *)
(* before the next timer or I/O callback, timers never fire early, and     *)
(* the AsyncLocalStorage of src/unnamed/part_000 gives every continuation  *)
(* the store that was current when it was created.                         *)
(***************************************************************************)
EXTENDS Integers, Sequences, FiniteSets, TLC

\* ---------------------------------------------------------------- bounds
MaxCalls == 2   \* withTimeout calls made in one behaviour
MaxTime  == 2   \* the clock runs 0..MaxTime
MaxMs    == 2   \* requested durations are 0..MaxMs

Calls  == 1..MaxCalls
Idle   == -1    \* no task is running: the event loop picks the next one
Top    == 0     \* code outside every withTimeout scope
NoCtx  == 0     \* getStore() returned undefined

Min(a, b) == IF a <= b THEN a ELSE b

\* What a work function does before it returns its promise.
\* It returns a pending promise, returns an already fulfilled one, or throws.
SyncKinds == {"pending", "ok", "throw"}
\* How a work function uses the signal: not at all; a listener that rejects
\* the returned promise itself (fn = signal => axios.get(url, {signal}));
\* or an awaited abort-aware call inside an async function.
SubKinds == {"none", "direct", "awaited"}

VARIABLES
    now,      \* Date.now()
    store,    \* getStore() in the running task (NoCtx when none runs)
    running,  \* owner of the running task: Idle, Top, or the call whose work runs
    next,     \* number of withTimeout calls made so far
    call,     \* call[c]: the locals and promises of the c-th withTimeout call
    micro     \* the microtask queue (promise reaction jobs), oldest first

vars == <<now, store, running, next, call, micro>>

NoCall ==
    [st |-> "new", caller |-> Top, ms |-> 0, now |-> 0, parent |-> NoCtx,
     deadline |-> 0, remaining |-> 0, timer |-> "none", controller |-> "none",
     listeners |-> <<>>, wctx |-> NoCtx, work |-> "none", race |-> "none",
     outcome |-> "none", first |-> "none", late |-> FALSE]

Init ==
    /\ now = 0
    /\ store = NoCtx
    /\ running = Idle
    /\ next = 0
    /\ call = [c \in Calls |-> NoCall]
    /\ micro = <<>>

\* ------------------------------------------------- AsyncLocalStorage
\* timeoutContext.run(ctx, cb): cb runs with ctx as the store.
RunStore(ctx, prev) == ctx
\* Mutant of AfterRun: the store installed by run() stays current.
AfterRunKeep(ctx, prev) == ctx

\* ... and the previous store is current again when run() returns.
AfterRun(ctx, prev) == prev
\* Mutant of Restore: a module-level variable instead of an
\* AsyncLocalStorage, so a continuation sees whatever is current.
RestoreGlobal(captured, current) == current

\* A continuation (promise reaction, timer or I/O callback) runs with the
\* store captured when it was created, whatever ran in between.
Restore(captured, current) == captured

\* Mutant of Deadline: the parent's deadline is ignored.
DeadlineOwn(p, n, ms) == n + ms

\* Mutant of Deadline: Math.max where the code has Math.min.
DeadlineMax(p, n, ms) ==
    IF p # NoCtx /\ call[p].deadline > n + ms THEN call[p].deadline ELSE n + ms

\* withTimeout.ts:11-13
Deadline(p, n, ms) ==
    IF p # NoCtx THEN Min(call[p].deadline, n + ms) ELSE n + ms

\* Mutant of ExpiredAtEntry: < where the code has <=.
ExpiredAtEntryStrict(deadline, n) == deadline < n

\* withTimeout.ts:15
ExpiredAtEntry(deadline, n) == deadline <= n

\* Mutant of Listeners: the executor never subscribes to the abort event.
ListenersNoExec(sub) ==
    CASE sub = "direct"  -> <<"work">>
      [] sub = "awaited" -> <<"down">>
      [] OTHER           -> <<>>

\* Mutant of Listeners: the executor subscribes twice.
ListenersTwice(sub) ==
    (CASE sub = "direct"  -> <<"work">>
       [] sub = "awaited" -> <<"down">>
       [] OTHER           -> <<>>) \o <<"exec", "exec">>

\* The listeners on controller.signal once the race is built: fn(signal)
\* is evaluated first (line 31), the executor subscribes after it (line 33).
Listeners(sub) ==
    (CASE sub = "direct"  -> <<"work">>
       [] sub = "awaited" -> <<"down">>
       [] OTHER           -> <<>>) \o <<"exec">>

Job(k, c, v) == [k |-> k, c |-> c, v |-> v]

\* Mutant of ClearTimeout: the finally block is missing.
ClearTimeoutNone(t) == t

\* clearTimeout(timer), line 42.
ClearTimeout(t) == IF t = "armed" THEN "cleared" ELSE t

\* ------------------------------------------------------------ actions
\* Time passes between tasks (the clock is read as standing still while
\* the microtask queue drains).
Tick ==
    /\ running = Idle
    /\ micro = <<>>
    /\ now < MaxTime
    /\ now' = now + 1
    /\ UNCHANGED <<store, running, next, call, micro>>

\* withTimeout(ms, fn) called by the running task; the synchronous part of
\* the async function, up to the await of line 27.
\* busy: fn is CPU-bound and returns its promise only at the deadline.
Enter(ms, sub, sync, busy) ==
    /\ running # Idle
    /\ next < MaxCalls
    /\ Deadline(store, now, ms) <= MaxTime
    /\ LET c        == next + 1
           parent   == store
           n        == now
           deadline == Deadline(parent, n, ms)
           base     == [NoCall EXCEPT !.caller = running, !.ms = ms, !.now = n,
                                      !.parent = parent, !.deadline = deadline]
       IN  /\ next' = c
           /\ IF ExpiredAtEntry(deadline, n)
              THEN \* line 16: the returned promise is already rejected
                   /\ sub = "none" /\ sync = "pending" /\ ~busy
                   /\ call' = [call EXCEPT ![c] =
                          [base EXCEPT !.st = "done", !.outcome = "TimeoutError"]]
                   /\ micro' = Append(micro, Job("resume", c, "TimeoutError"))
                   /\ UNCHANGED <<now, store>>
              ELSE LET armed == [base EXCEPT !.controller = "live",
                                     !.remaining = deadline - n,
                                     !.timer = "armed",
                                     !.wctx = RunStore(c, store),
                                     !.work = "pending"]
                       after == IF busy THEN deadline ELSE n
                   IN  /\ now' = after
                       /\ store' = AfterRun(c, store)
                       /\ CASE sync = "throw" ->
                                \* fn threw: the array of line 30 is never built,
                                \* finally clears the timer
                                /\ sub = "none" /\ ~busy
                                /\ call' = [call EXCEPT ![c] =
                                     [armed EXCEPT !.st = "done", !.work = "err",
                                                   !.first = "work",
                                                   !.late = (after >= deadline),
                                                   !.timer = ClearTimeout("armed"),
                                                   !.outcome = "err"]]
                                /\ micro' = Append(micro, Job("resume", c, "err"))
                            [] sync = "pending" ->
                                /\ call' = [call EXCEPT ![c] =
                                     [armed EXCEPT !.st = "pending",
                                                   !.race = "pending",
                                                   !.listeners = Listeners(sub)]]
                                /\ micro' = micro
                            [] OTHER ->
                                \* fn returned an already settled promise
                                /\ sub = "none"
                                /\ call' = [call EXCEPT ![c] =
                                     [armed EXCEPT !.st = "pending",
                                                   !.race = "pending",
                                                   !.work = sync,
                                                   !.first = "work",
                                                   !.late = (after >= deadline),
                                                   !.listeners = Listeners(sub)]]
                                /\ micro' = Append(micro, Job("raceWork", c, sync))
    /\ UNCHANGED running

\* An I/O callback or timer of top-level code starts a task.
StartTop ==
    /\ running = Idle
    /\ micro = <<>>
    /\ next < MaxCalls
    /\ running' = Top
    /\ store' = Restore(NoCtx, store)
    /\ UNCHANGED <<now, next, call, micro>>

\* An I/O callback of the work of call c starts a task; the callback was
\* created while fn ran inside timeoutContext.run (line 27).
StartWork(c) ==
    /\ running = Idle
    /\ micro = <<>>
    /\ call[c].work = "pending"
    /\ running' = c
    /\ store' = Restore(call[c].wctx, store)
    /\ UNCHANGED <<now, next, call, micro>>

\* The running task returns to the event loop.
EndTask ==
    /\ running # Idle
    /\ running' = Idle
    /\ store' = NoCtx
    /\ UNCHANGED <<now, next, call, micro>>

\* The running work settles the promise fn returned and its task ends: it
\* returns a value, throws an error of its own, or lets the TimeoutError of
\* a nested call through.
WorkSettle(r) ==
    /\ running \in Calls
    /\ call[running].work = "pending"
    /\ r = "TimeoutError" =>
          \E d \in Calls : /\ call[d].caller = running
                           /\ call[d].outcome = "TimeoutError"
    /\ call' = [call EXCEPT ![running] =
          [@ EXCEPT !.work = r,
                    !.first = IF @ = "none" THEN "work" ELSE @,
                    !.late = (now >= call[running].deadline)]]
    /\ micro' = Append(micro, Job("raceWork", running, r))
    /\ running' = Idle
    /\ store' = NoCtx
    /\ UNCHANGED <<now, next>>

\* The running work subscribes to the abort event of its signal, after the
\* executor did if the signal is live; addEventListener accepts the listener
\* on an aborted signal too, and the event is not dispatched again.
WorkSubscribe ==
    /\ running \in Calls
    /\ call[running].work = "pending"
    /\ \A i \in 1..Len(call[running].listeners) :
          call[running].listeners[i] # "work"
    /\ call' = [call EXCEPT ![running].listeners = Append(@, "work")]
    /\ UNCHANGED <<now, store, running, next, micro>>

\* controller.abort() runs the signal's listeners in the order they were
\* added. d is [work, micro]: the work's promise and the microtask queue.
RECURSIVE Dispatch(_, _, _)
Dispatch(ls, c, d) ==
    IF ls = <<>> THEN d
    ELSE LET l == Head(ls)
             e == CASE l = "work" /\ d.work = "pending" ->
                         [work  |-> "AbortError",
                          micro |-> Append(d.micro, Job("raceWork", c, "AbortError"))]
                    [] l = "down" ->
                         [d EXCEPT !.micro = Append(@, Job("workAbort", c, "AbortError"))]
                    [] l = "exec" ->
                         \* line 35: reject(new TimeoutError())
                         [d EXCEPT !.micro = Append(@, Job("raceTimeout", c, "TimeoutError"))]
                    [] OTHER -> d
         IN  Dispatch(Tail(ls), c, e)

\* A timer is due when the clock has reached the time it was armed for.
\* Mutant of TimerDue: the timer callback may run before its delay elapsed.
TimerDueAnytime(c) == call[c].timer = "armed"

TimerDue(c) == call[c].timer = "armed" /\ now >= call[c].now + call[c].remaining

\* Mutant of Signal: one module-level controller shared by every call.
SignalShared(c) == 1

\* Mutant of Signal: the timer callback aborts the enclosing scope's
\* controller when there is one.
SignalParent(c) == IF call[c].parent # NoCtx THEN call[c].parent ELSE c

\* The controller the timer callback of call c aborts: its own (line 19
\* creates one per call, line 23 closes over it).
Signal(c) == c

\* The timer callback of lines 22-24, a task of its own.
Fire(c) ==
    /\ running = Idle
    /\ micro = <<>>
    /\ TimerDue(c)
    /\ LET k == Signal(c)
           d == IF call[k].controller = "live"
                THEN Dispatch(call[k].listeners, k,
                              [work |-> call[k].work, micro |-> micro])
                ELSE [work |-> call[k].work, micro |-> micro]
           fired == [call EXCEPT ![c].timer = "fired"]
       IN  /\ call' = [fired EXCEPT ![k] =
                  [@ EXCEPT !.controller = "aborted",
                            !.listeners = <<>>,
                            !.first = IF @ = "none" THEN "abort" ELSE @,
                            !.late = IF d.work # call[k].work THEN TRUE ELSE @,
                            !.work = d.work]]
           /\ micro' = d.micro
    /\ UNCHANGED <<now, store, running, next>>

\* ---- microtasks: the oldest job runs when no task is running
Job0 == Head(micro)
Ready(k) == running = Idle /\ micro # <<>> /\ Job0.k = k

\* Mutant of RaceSettle: every reaction settles the race again, so the last
\* one to run decides.
RaceSettleLast(c, v) ==
    /\ call' = [call EXCEPT ![c].race = v]
    /\ micro' = Append(Tail(micro), Job("cont", c, v))

\* Promise.race (line 30): the first reaction to run settles the race; the
\* await of line 27 then resumes withTimeout in a later microtask.
RaceSettle(c, v) ==
    IF call[c].race = "pending"
    THEN /\ call' = [call EXCEPT ![c].race = v]
         /\ micro' = Append(Tail(micro), Job("cont", c, v))
    ELSE /\ call' = call
         /\ micro' = Tail(micro)

\* The reaction of the race to the work's promise.
RaceWork ==
    /\ Ready("raceWork")
    /\ RaceSettle(Job0.c, Job0.v)
    /\ UNCHANGED <<now, store, running, next>>

\* The reaction of the race to the promise the abort listener rejects.
RaceTimeout ==
    /\ Ready("raceTimeout")
    /\ RaceSettle(Job0.c, "TimeoutError")
    /\ UNCHANGED <<now, store, running, next>>

\* Mutant of Settlement: a catch that reports every rejection as a timeout.
SettlementAsTimeout(race) == IF race = "ok" THEN race ELSE "TimeoutError"

\* `return await ...` inside try/finally with no catch (lines 26-43): the
\* call settles exactly as the race did.
Settlement(race) == race

\* withTimeout resumes after the await (lines 27, 41-43): finally clears the
\* timer and the call settles as the race did.
Cont ==
    /\ Ready("cont")
    /\ LET c == Job0.c
       IN  /\ call' = [call EXCEPT ![c] =
                  [@ EXCEPT !.st = "done",
                            !.timer = ClearTimeout(@),
                            !.outcome = Settlement(call[c].race)]]
           /\ micro' = Append(Tail(micro),
                              Job("resume", c, Settlement(call[c].race)))
    /\ UNCHANGED <<now, store, running, next>>

\* An async work function resumes from its awaited abort-aware call, which
\* rejected on abort; the error leaves the function.
WorkAbort ==
    /\ Ready("workAbort")
    /\ LET c == Job0.c
       IN  IF call[c].work = "pending"
           THEN /\ call' = [call EXCEPT ![c] =
                      [@ EXCEPT !.work = "AbortError", !.late = TRUE]]
                /\ micro' = Append(Tail(micro), Job("raceWork", c, "AbortError"))
           ELSE /\ call' = call
                /\ micro' = Tail(micro)
    /\ UNCHANGED <<now, store, running, next>>

\* The caller's continuation of `await withTimeout(...)` starts a task.
Resume ==
    /\ Ready("resume")
    /\ running' = call[Job0.c].caller
    /\ store' = Restore(call[Job0.c].parent, store)
    /\ micro' = Tail(micro)
    /\ UNCHANGED <<now, next, call>>

Next ==
    \/ Tick
    \/ StartTop
    \/ \E c \in Calls : StartWork(c)
    \/ EndTask
    \/ \E ms \in 0..MaxMs, sub \in SubKinds, sync \in SyncKinds, busy \in BOOLEAN :
          Enter(ms, sub, sync, busy)
    \/ \E r \in {"ok", "err", "TimeoutError"} : WorkSettle(r)
    \/ WorkSubscribe
    \/ \E c \in Calls : Fire(c)
    \/ RaceWork
    \/ RaceTimeout
    \/ Cont
    \/ WorkAbort
    \/ Resume

Spec == Init /\ [][Next]_vars

\* The event loop keeps going: the clock advances, every task returns, the
\* microtask queue is drained, and the timers phase of each loop iteration
\* runs the callbacks of the timers that are due, however many I/O callbacks
\* are served in between.
Microtask == RaceWork \/ RaceTimeout \/ Cont \/ WorkAbort \/ Resume
LiveSpec ==
    /\ Spec
    /\ SF_vars(Tick)
    /\ WF_vars(EndTask)
    /\ WF_vars(Microtask)
    /\ \A c \in Calls : SF_vars(Fire(c))

\* ------------------------------------------------------------- claims
Entered(c) == call[c].st # "new"
Settled(c) == call[c].outcome # "none"
\* The call got past line 17: it created a controller and invoked fn.
Scoped(c)  == call[c].controller # "none"

RECURSIVE Ancestors(_)
Ancestors(c) ==
    IF call[c].parent = NoCtx THEN {}
    ELSE {call[c].parent} \cup Ancestors(call[c].parent)

\* C1: the effective deadline of every call is min(parent.deadline, now + ms)
\* when the call read a parent context and now + ms otherwise; so no scope's
\* deadline is later than that of any of its ancestors.
C1_DeadlineNeverExtends ==
    \A c \in Calls : Entered(c) =>
        /\ call[c].parent # NoCtx =>
              /\ call[c].deadline <= call[call[c].parent].deadline
              /\ call[c].deadline <= call[c].now + call[c].ms
              /\ call[c].deadline \in {call[call[c].parent].deadline,
                                       call[c].now + call[c].ms}
        /\ call[c].parent = NoCtx => call[c].deadline = call[c].now + call[c].ms
        /\ \A a \in Ancestors(c) : call[c].deadline <= call[a].deadline

\* A nested scope asked for more time than its parent had left and was clamped.
C1_Witness ==
    \E c \in Calls :
        /\ Scoped(c)
        /\ call[c].parent # NoCtx
        /\ call[c].now + call[c].ms > call[call[c].parent].deadline
        /\ call[c].deadline = call[call[c].parent].deadline

\* C2: a call whose effective deadline is not after its entry time is rejected
\* with TimeoutError at once: fn is never invoked, no timer is armed, no
\* controller is created and no context is installed.
C2_ExpiredAtEntryFailsFast ==
    \A c \in Calls : (Entered(c) /\ call[c].deadline <= call[c].now) =>
        /\ call[c].outcome = "TimeoutError"
        /\ call[c].work = "none"
        /\ call[c].timer = "none"
        /\ call[c].controller = "none"
        /\ call[c].listeners = <<>>
        /\ call[c].wctx = NoCtx
        /\ \A d \in Calls : call[d].parent # c

\* A nested call asked for time but its parent's deadline had already passed.
C2_Witness ==
    \E c \in Calls :
        /\ Entered(c)
        /\ call[c].parent # NoCtx
        /\ call[c].ms > 0
        /\ call[c].deadline <= call[c].now
        /\ call[c].outcome = "TimeoutError"

\* C3: when the work's promise settles before the signal is aborted, the race
\* and the call settle with the work's own value or error, nothing else.
C3_WorkFirstPassesThrough ==
    \A c \in Calls : call[c].first = "work" =>
        /\ call[c].race \in {"none", "pending", call[c].work}
        /\ call[c].outcome \in {"none", call[c].work}

\* A call returned its work's value, and another (or the same) its work's error.
C3_Witness ==
    /\ \E c \in Calls : call[c].first = "work" /\ call[c].outcome = "ok"
    /\ \E c \in Calls : call[c].first = "work" /\ call[c].outcome = "err"
                        /\ call[c].race = "err"

\* C4 (as claimed): whenever the signal is aborted while the work is still
\* unsettled, the call rejects with TimeoutError, whatever the work does.
C4_AbortFirstMeansTimeoutError ==
    \A c \in Calls : (Settled(c) /\ call[c].first = "abort") =>
        call[c].outcome = "TimeoutError"

\* C5 (as claimed): when the clock reaches the deadline before the work
\* settles, the call's outcome is TimeoutError and never the work's result.
C5_DeadlineFirstMeansTimeoutError ==
    \A c \in Calls : (Settled(c) /\ (call[c].late \/ call[c].work = "pending")) =>
        call[c].outcome = "TimeoutError"

\* C6: every call that invoked its work eventually settles; when the work
\* never settled, the call was rejected with TimeoutError by its own timer.
C6_InvokedCallSettles ==
    /\ \A c \in Calls : (call[c].work # "none") ~> Settled(c)
    /\ [](\A c \in Calls : (Settled(c) /\ call[c].work = "pending") =>
              (call[c].outcome = "TimeoutError" /\ call[c].timer = "fired"))

\* A call whose work never settled has been rejected with TimeoutError.
C6_Witness ==
    \E c \in Calls :
        /\ call[c].work = "pending"
        /\ call[c].outcome = "TimeoutError"
        /\ call[c].timer = "fired"

C8_DeadlinePassedMeansAborted ==
    \A c \in Calls : (Settled(c) /\ call[c].late) =>
        call[c].controller = "aborted"

Unrelated(c, d) == c # d /\ c \notin Ancestors(d) /\ d \notin Ancestors(c)

\* C9: a step that aborts the signal of one call leaves every unrelated call
\* exactly as it was (signal, deadline, timer, race, outcome) and queues
\* reactions for the aborted call only; a signal is aborted by nothing but
\* its own call's timer.
C9_UnrelatedCallsIsolated ==
    /\ [][\A c \in Calls :
            (call[c].controller = "live" /\ call'[c].controller = "aborted") =>
                /\ \A d \in Calls : Unrelated(c, d) => call'[d] = call[d]
                /\ \A i \in 1..Len(micro') : micro'[i].c = c]_vars
    /\ [](\A c \in Calls : call[c].controller = "aborted" => call[c].timer = "fired")

\* One call timed out while an unrelated call, entered before that, is still
\* running with its signal live and its timer armed.
C9_Witness ==
    \E c, d \in Calls :
        /\ Unrelated(c, d)
        /\ call[c].controller = "aborted"
        /\ call[c].outcome = "TimeoutError"
        /\ call[d].now < call[c].deadline
        /\ call[d].controller = "live"
        /\ call[d].timer = "armed"
        /\ call[d].work = "pending"

\* C10: the parent a call reads is the context of the scope whose work makes
\* the call, and none for a call made outside every scope, whatever tasks
\* ran between the installation of that context and the call.
C10_ParentIsCallersScope ==
    \A c \in Calls : Entered(c) =>
        /\ call[c].caller = Top => call[c].parent = NoCtx
        /\ call[c].caller # Top => call[c].parent = call[c].caller

\* A work resumed in a later task and made a nested call that read its own
\* scope, and top-level code made a call while a scope was installed and
\* running, and read no parent.
C10_Witness ==
    /\ \E c \in Calls :
          /\ call[c].caller # Top
          /\ call[c].parent = call[c].caller
          /\ call[c].now > call[call[c].caller].now
    \/ \E c, d \in Calls :
          /\ Entered(c) /\ call[c].caller = Top /\ call[c].parent = NoCtx
          /\ Scoped(d) /\ call[d].now < call[c].now
          /\ call[d].work = "pending" /\ ~Settled(d)

\* C11: a settled call has no armed timer, whichever way it settled, and the
\* signal of a settled call is never aborted afterwards.
C11_SettledCallHasNoArmedTimer ==
    /\ [](\A c \in Calls : Settled(c) => call[c].timer # "armed")
    /\ [][\A c \in Calls :
            (Settled(c) /\ call[c].controller = "live") =>
                call'[c].controller = "live"]_vars

\* A call returned its work's value in time; the clock has since passed its
\* deadline and the signal is still not aborted.
C11_Witness ==
    \E c \in Calls :
        /\ call[c].outcome = "ok"
        /\ ~call[c].late
        /\ call[c].timer = "cleared"
        /\ call[c].controller = "live"
        /\ now > call[c].deadline

\* C12: the caller sees the same ambient context after a call as before it:
\* when withTimeout returns its promise, when the caller's await resumes, and
\* throughout the task; calls made by the same caller read the same parent.
C12_AmbientContextRestored ==
    /\ [][/\ next' = next + 1 => store' = store
          /\ (running = Idle /\ micro # <<>> /\ running' # Idle) =>
                store' = call[Head(micro).c].parent]_vars
    /\ [](running # Idle => store = running)
    /\ [](\A c, d \in Calls :
            (Entered(c) /\ Entered(d) /\ call[c].caller = call[d].caller) =>
                call[c].parent = call[d].parent)

\* A call returned its work's value before its deadline; the same caller
\* made a second call after that deadline and it read the same parent.
C12_Witness ==
    \E c, d \in Calls :
        /\ c # d
        /\ Scoped(c) /\ call[c].outcome = "ok" /\ ~call[c].late
        /\ Entered(d)
        /\ call[d].caller = call[c].caller
        /\ call[d].now >= call[c].deadline
        /\ call[d].parent = call[c].parent

\* The resume jobs queued for call c: deliveries of its outcome to its caller.
Deliveries(q, c) ==
    Cardinality({i \in 1..Len(q) : q[i].k = "resume" /\ q[i].c = c})

\* C13: a call settles once, with the work's outcome or with TimeoutError:
\* its outcome never changes afterwards, whatever the abandoned work does
\* later, and it is delivered to the caller once, when the call settles.
C13_SettlesExactlyOnce ==
    /\ [](\A c \in Calls : Settled(c) =>
              call[c].outcome \in {"TimeoutError", call[c].work})
    /\ [][\A c \in Calls :
            /\ Settled(c) => call'[c].outcome = call[c].outcome
            /\ Settled(c) => Deliveries(micro', c) <= Deliveries(micro, c)
            /\ (~Settled(c) /\ Settled(c)') =>
                  /\ Deliveries(micro', c) = 1
                  /\ micro'[Len(micro')].v = call'[c].outcome]_vars

\* The timeout won, the abandoned work was fulfilled later, and the call's
\* outcome is still TimeoutError.
C13_Witness ==
    \E c \in Calls :
        /\ call[c].outcome = "TimeoutError"
        /\ call[c].first = "abort"
        /\ call[c].work = "ok"
        /\ \A i \in 1..Len(micro) : micro[i].c # c

\* The reactions to the executor's abort listener queued for call c.
TimeoutJobs(q, c) ==
    Cardinality({i \in 1..Len(q) : q[i].k = "raceTimeout" /\ q[i].c = c})

\* C14: the signal of a scope is one-shot: created unaborted, aborted at most
\* once and never unaborted again (the timer is the only caller of abort and
\* fires once); the executor's listener runs in the aborting step, once, and
\* in no other step.
C14_SignalIsOneShot ==
    [][\A c \in Calls :
         /\ (call[c].controller = "none" /\ call'[c].controller # "none") =>
               call'[c].controller = "live"
         /\ call[c].controller = "live" => call'[c].controller # "none"
         /\ call[c].controller = "aborted" => call'[c].controller = "aborted"
         /\ IF call[c].controller = "live" /\ call'[c].controller = "aborted"
            THEN /\ TimeoutJobs(micro', c) = TimeoutJobs(micro, c) + 1
                 /\ call'[c].listeners = <<>>
            ELSE TimeoutJobs(micro', c) <= TimeoutJobs(micro, c)]_vars

\* A signal was aborted and the executor's reaction has run and won the race.
C14_Witness ==
    \E c \in Calls :
        /\ call[c].controller = "aborted"
        /\ call[c].timer = "fired"
        /\ call[c].race = "TimeoutError"
        /\ TimeoutJobs(micro, c) = 0

\* C15 (as claimed): a listener added to a signal that is already aborted is
\* invoked at once or at the next scheduling opportunity: when the event loop
\* is idle again, no listener is left waiting on an aborted signal.
C15_LateSubscriberIsInvoked ==
    \A c \in Calls :
        (call[c].controller = "aborted" /\ running = Idle /\ micro = <<>>) =>
            call[c].listeners = <<>>

HasListener(c, l) ==
    \E i \in 1..Len(call[c].listeners) : call[c].listeners[i] = l

\* C16: whenever the timer of a call is armed, the executor's abort listener
\* is registered on the call's signal (arming and registering are one
\* synchronous run, also when the work's synchronous part runs past the
\* deadline), and the step that aborts a signal queues the executor's
\* rejection of the race.
C16_ExecutorSubscribedBeforeAbort ==
    /\ [](\A c \in Calls : call[c].timer = "armed" => HasListener(c, "exec"))
    /\ [][\A c \in Calls :
            (call[c].controller = "live" /\ call'[c].controller = "aborted") =>
                /\ HasListener(c, "exec")
                /\ TimeoutJobs(micro', c) = 1]_vars

\* The synchronous part of the work ran up to the deadline: the task that
\* made the call is still running, the timer is due and has not run, and the
\* executor's listener is registered.
C16_Witness ==
    \E c \in Calls :
        /\ running = call[c].caller
        /\ call[c].now < now
        /\ TimerDue(c)
        /\ call[c].controller = "live"
        /\ call[c].work = "pending"
        /\ HasListener(c, "exec")

\* C17 (as claimed): a nested call that is still pending when the signal of
\* one of its ancestors is aborted ends with its own signal aborted and is
\* rejected with TimeoutError. Its outcome never changes once settled and
\* settling clears its timer, so the step that settles it must already show
\* both.
C17_ExpiryReachesDescendants ==
    [][\A c \in Calls :
         ( /\ Scoped(c)
           /\ ~Settled(c)
           /\ \E a \in Ancestors(c) : call[a].controller = "aborted"
           /\ Settled(c)' ) =>
               /\ call'[c].outcome = "TimeoutError"
               /\ call'[c].controller = "aborted"]_vars

\* C18: the step in which the timer of a nested call fires leaves every
\* enclosing call exactly as it was: signal, deadline, timer, race, outcome.
C18_ExpiryNeverPropagatesUp ==
    [][\A c \in Calls :
         (call[c].timer = "armed" /\ call'[c].timer = "fired") =>
             \A a \in Ancestors(c) : call'[a] = call[a]]_vars

\* A nested call with a tighter deadline timed out; the enclosing call, whose
\* signal was never aborted, returned the result of its work.
C18_Witness ==
    \E c \in Calls : \E a \in Ancestors(c) :
        /\ call[c].deadline < call[a].deadline
        /\ call[c].controller = "aborted"
        /\ call[c].outcome = "TimeoutError"
        /\ call[a].controller = "live"
        /\ call[a].outcome = "ok"

\* C19: a signal is aborted only by its call's timer, at or after the call's
\* deadline, and while the call is still pending.
C19_NeverAbortedEarly ==
    /\ [](\A c \in Calls : call[c].controller = "aborted" =>
              (now >= call[c].deadline /\ call[c].timer = "fired"))
    /\ [][\A c \in Calls :
            (call[c].controller = "live" /\ call'[c].controller = "aborted") =>
                /\ ~Settled(c)
                /\ now >= call[c].deadline
                /\ call[c].timer = "armed"]_vars

\* A signal was just aborted, at its deadline, its call still pending.
C19_Witness ==
    \E c \in Calls :
        /\ call[c].controller = "aborted"
        /\ ~Settled(c)
        /\ call[c].now < call[c].deadline
        /\ now = call[c].deadline

====
